---- MODULE Spec2Model ----
(***************************************************************************)
(* Model of src/main.py, a Streamlit chat page that relays each submitted  *)
(* message to the Gemini completion API.                                   *)
(*                                                                         *)
(* Streamlit executes the script top to bottom once per "script run": on   *)
(* the first page load of a browser session and again on every rerun (a    *)
(* chat_input submission or a plain rerun).  st.session_state survives the *)
(* runs of one session; everything else is rebuilt.  Several sessions of   *)
(* one server process run the same script and share the process            *)
(* environment.  A run is modelled as the sequence of its statements, cut  *)
(* at the places where the script touches the state the claims are about;  *)
(* pc[s] is the line the run of session s is about to execute.  The only   *)
(* blocking statement is model.generate_content (line 82): a run waiting   *)
(* there has pc[s] = "L82".                                                *)
(***************************************************************************)
EXTENDS Integers, Sequences, FiniteSets, TLC

\* ------------------------------------------------------------------ bounds
\* Messages submitted in total, over all sessions.
MaxMsgs == 3

\* ------------------------------------------------------- inputs of the model
Sessions == {"s1", "s2"}
\* Texts a user submits (st.chat_input only ever returns non-empty text).
Prompts == {"Hello", "How do I center a div?"}
\* Texts response.text yields.
Replies == {"Hi there"}
\* str(e) of the exceptions generate_content / response.text raise.
Failures == {"429 quota exceeded"}

\* Python's Optional[str]: None, or a string.
NoneVal == [isNone |-> TRUE, val |-> ""]
Str(x) == [isNone |-> FALSE, val |-> x]
\* Python truthiness of an Optional[str]: None and "" are falsy.
Truthy(v) == ~v.isNone /\ v.val # ""

\* Values of GEMINI_API_KEY in the process environment.
KeyValues == {NoneVal, Str(""), Str("AIza-key")}

\* ------------------------------------------------------------ program text
AGENT_INSTRUCTIONS ==
    "You are a helpful frontend developer who assists people in creating their own frontends. "
    \o "Also, provide guidance for different situations and challenges in frontend development."

\* The text of lines 20-22; its two backquotes (around .env) are left out,
\* a TLA+ string cannot hold them.
CONFIG_ERROR ==
    "GEMINI_API_KEY not found in environment variables. "
    \o "Please set it in a .env file (for local development) "
    \o "or as a secret in Streamlit Cloud (for deployment)."

GREETING ==
    "Hello! I am your Frontend Master. How can I help you create a frontend for your business today?"

FALLBACK == "Sorry, I encountered an error. Please try again."

Turn(role, content) == [role |-> role, content |-> content]
Last(q) == q[Len(q)]

\* f"{AGENT_INSTRUCTIONS}\n\nUser: {prompt}\nFrontend Master:"
full_prompt_text(prompt) ==
    AGENT_INSTRUCTIONS \o "\n\nUser: " \o prompt \o "\nFrontend Master:"

\* f"An error occurred while fetching a response: {e}"
error_message(e) == "An error occurred while fetching a response: " \o e

\* Line 49: the transcript is seeded when the session has no "messages" key.
AlwaysSeed(state) == TRUE
NeedsSeed(state) == "messages" \notin state.keys

\* Line 68: messages.append({"role": "user", "content": prompt})
InsertUserFirst(msgs, prompt) == <<Turn("user", prompt)>> \o msgs
AppendUser(msgs, prompt) == Append(msgs, Turn("user", prompt))

\* Line 91: messages.append({"role": "assistant", "content": assistant_response})
AppendLabelledReply(msgs, assistant_response) ==
    Append(msgs, Turn("assistant", "Frontend Master: " \o assistant_response))
AppendReplyThenFallback(msgs, assistant_response) ==
    Append(Append(msgs, Turn("assistant", assistant_response)),
           Turn("assistant", FALLBACK))
AppendReply(msgs, assistant_response) ==
    Append(msgs, Turn("assistant", assistant_response))

\* Line 98: messages.append({"role": "assistant", "content": "Sorry, ..."}),
\* reached with the error message of line 95 at hand.
SkipFallback(msgs, error_msg) == msgs
AppendErrorMessage(msgs, error_msg) == Append(msgs, Turn("assistant", error_msg))
AppendFallback(msgs, error_msg) == Append(msgs, Turn("assistant", FALLBACK))

VARIABLES
    environ,         \* value of GEMINI_API_KEY in os.environ (process-wide)
    configured,      \* api_key last given to genai.configure (process-wide)
    pc,              \* per session: "idle" or the line the run is at
    ended,           \* per session: how its previous run ended
    widget,          \* per session: what st.chat_input returns in this run
    session_state,   \* per session: [keys, messages] of st.session_state
    chat,            \* per session: turns drawn by the history loop this run
    chatInputShown,  \* per session: the run has drawn the chat_input widget
    errors,          \* per session: texts given to st.error in this run
    requests,        \* per session: texts received by model.generate_content
    submitted,       \* per session: texts st.chat_input has returned
    outcomes,        \* per session: what each generate_content call produced
    seeds            \* per session: times line 50 assigned the seed list

vars == <<environ, configured, pc, ended, widget, session_state, chat,
          chatInputShown, errors, requests, submitted, outcomes, seeds>>

messages(s) == session_state[s].messages
hasMessages(s) == "messages" \in session_state[s].keys

RECURSIVE SumLen(_, _)
SumLen(f, S) ==
    IF S = {} THEN 0
    ELSE LET x == CHOOSE y \in S : TRUE IN Len(f[x]) + SumLen(f, S \ {x})

TotalSubmitted == SumLen(submitted, Sessions)

Init ==
    /\ environ \in KeyValues
    /\ configured = NoneVal
    /\ pc = [s \in Sessions |-> "idle"]
    /\ ended = [s \in Sessions |-> "none"]
    /\ widget = [s \in Sessions |-> NoneVal]
    /\ session_state = [s \in Sessions |-> [keys |-> {}, messages |-> <<>>]]
    /\ chat = [s \in Sessions |-> <<>>]
    /\ chatInputShown = [s \in Sessions |-> FALSE]
    /\ errors = [s \in Sessions |-> <<>>]
    /\ requests = [s \in Sessions |-> <<>>]
    /\ submitted = [s \in Sessions |-> <<>>]
    /\ outcomes = [s \in Sessions |-> <<>>]
    /\ seeds = [s \in Sessions |-> 0]

\* A script run of session s begins.  v is the value st.chat_input will
\* return in it: None on the first load and on a plain rerun, the submitted
\* text when the run was triggered by the chat_input widget the previous run
\* drew.  The page of the new run starts empty.
StartRun(s, v) ==
    /\ pc[s] = "idle"
    /\ \/ v = NoneVal
       \/ /\ v.val \in Prompts /\ ~v.isNone
          /\ chatInputShown[s]
          /\ TotalSubmitted < MaxMsgs
    /\ pc' = [pc EXCEPT ![s] = "L15"]
    /\ widget' = [widget EXCEPT ![s] = v]
    /\ chat' = [chat EXCEPT ![s] = <<>>]
    /\ errors' = [errors EXCEPT ![s] = <<>>]
    /\ chatInputShown' = [chatInputShown EXCEPT ![s] = FALSE]
    /\ UNCHANGED <<environ, configured, ended, session_state, requests,
                   submitted, outcomes, seeds>>

\* Line 18: not gemini_api_key
KeyIsNone(gemini_api_key) == gemini_api_key.isNone
KeyMissing(gemini_api_key) == ~Truthy(gemini_api_key)

\* Lines 15-30: read the key; without one, st.error and st.stop end the run;
\* with one, genai.configure and GenerativeModel.

CheckKey(s) ==
    /\ pc[s] = "L15"
    /\ LET gemini_api_key == environ IN
       IF KeyMissing(gemini_api_key)
       THEN /\ errors' = [errors EXCEPT ![s] = Append(@, CONFIG_ERROR)]
            /\ pc' = [pc EXCEPT ![s] = "idle"]
            /\ ended' = [ended EXCEPT ![s] = "stop"]
            /\ UNCHANGED configured
       ELSE /\ configured' = gemini_api_key
            /\ pc' = [pc EXCEPT ![s] = "L49"]
            /\ UNCHANGED <<errors, ended>>
    /\ UNCHANGED <<environ, widget, session_state, chat, chatInputShown,
                   requests, submitted, outcomes, seeds>>

\* Lines 49-54: seed the transcript unless the session already has one.
InitMessages(s) ==
    /\ pc[s] = "L49"
    /\ IF NeedsSeed(session_state[s])
       THEN /\ session_state' = [session_state EXCEPT ![s] =
                  [keys |-> @.keys \cup {"messages"},
                   messages |-> Append(<<>>, Turn("assistant", GREETING))]]
            /\ seeds' = [seeds EXCEPT ![s] = @ + 1]
       ELSE UNCHANGED <<session_state, seeds>>
    /\ pc' = [pc EXCEPT ![s] = "L58"]
    /\ UNCHANGED <<environ, configured, ended, widget, chat, chatInputShown,
                   errors, requests, submitted, outcomes>>

\* Lines 58-60: the history loop draws every turn of the transcript.
RenderHistory(s) ==
    /\ pc[s] = "L58"
    /\ chat' = [chat EXCEPT ![s] = messages(s)]
    /\ pc' = [pc EXCEPT ![s] = "L66"]
    /\ UNCHANGED <<environ, configured, ended, widget, session_state,
                   chatInputShown, errors, requests, submitted, outcomes, seeds>>

\* As ChatInput, the request built from the whole transcript instead of the
\* submitted text alone.
RECURSIVE Dialogue(_)
Dialogue(msgs) ==
    IF msgs = <<>> THEN ""
    ELSE msgs[1].role \o ": " \o msgs[1].content \o "\n" \o Dialogue(Tail(msgs))

ChatInputResendsTranscript(s) ==
    /\ pc[s] = "L66"
    /\ chatInputShown' = [chatInputShown EXCEPT ![s] = TRUE]
    /\ LET prompt == widget[s] IN
       IF Truthy(prompt)
       THEN /\ session_state' = [session_state EXCEPT ![s].messages =
                  AppendUser(@, prompt.val)]
            /\ submitted' = [submitted EXCEPT ![s] = Append(@, prompt.val)]
            /\ requests' = [requests EXCEPT ![s] =
                  Append(@, AGENT_INSTRUCTIONS \o "\n\n"
                            \o Dialogue(Tail(messages(s)))
                            \o "User: " \o prompt.val \o "\nFrontend Master:")]
            /\ pc' = [pc EXCEPT ![s] = "L82"]
       ELSE /\ pc' = [pc EXCEPT ![s] = "L103"]
            /\ UNCHANGED <<session_state, submitted, requests>>
    /\ UNCHANGED <<environ, configured, ended, widget, chat, errors,
                   outcomes, seeds>>

\* Lines 66-82: draw the chat_input; with a submitted text, append the user
\* turn, build the request and call generate_content (the run then waits for
\* the call); with none, skip to the sidebar.
ChatInput(s) ==
    /\ pc[s] = "L66"
    /\ chatInputShown' = [chatInputShown EXCEPT ![s] = TRUE]
    /\ LET prompt == widget[s] IN
       IF Truthy(prompt)
       THEN /\ session_state' = [session_state EXCEPT ![s].messages =
                  AppendUser(@, prompt.val)]
            /\ submitted' = [submitted EXCEPT ![s] = Append(@, prompt.val)]
            /\ requests' = [requests EXCEPT ![s] =
                  Append(@, full_prompt_text(prompt.val))]
            /\ pc' = [pc EXCEPT ![s] = "L82"]
       ELSE /\ pc' = [pc EXCEPT ![s] = "L103"]
            /\ UNCHANGED <<session_state, submitted, requests>>
    /\ UNCHANGED <<environ, configured, ended, widget, chat, errors,
                   outcomes, seeds>>

\* Lines 82-91: generate_content returns and response.text yields T.
GenerateContentReturns(s, T) ==
    /\ pc[s] = "L82"
    /\ LET assistant_response == T IN
       session_state' = [session_state EXCEPT ![s].messages =
           AppendReply(@, assistant_response)]
    /\ outcomes' = [outcomes EXCEPT ![s] = Append(@, [ok |-> TRUE, val |-> T])]
    /\ pc' = [pc EXCEPT ![s] = "L103"]
    /\ UNCHANGED <<environ, configured, ended, widget, chat, chatInputShown,
                   errors, requests, submitted, seeds>>

\* As GenerateContentRaises without the except clause: the exception ends
\* the run.
GenerateContentRaisesUncaught(s, e) ==
    /\ pc[s] = "L82"
    /\ errors' = [errors EXCEPT ![s] = Append(@, e)]
    /\ outcomes' = [outcomes EXCEPT ![s] = Append(@, [ok |-> FALSE, val |-> e])]
    /\ pc' = [pc EXCEPT ![s] = "idle"]
    /\ ended' = [ended EXCEPT ![s] = "crash"]
    /\ UNCHANGED <<environ, configured, widget, session_state, chat,
                   chatInputShown, requests, submitted, seeds>>

\* As GenerateContentRaises with the call repeated once before giving up.
GenerateContentRaisesRetries(s, e) ==
    /\ pc[s] = "L82"
    /\ requests' = [requests EXCEPT ![s] = Append(@, Last(@))]
    /\ errors' = [errors EXCEPT ![s] = Append(@, error_message(e))]
    /\ session_state' = [session_state EXCEPT ![s].messages =
           AppendFallback(@, error_message(e))]
    /\ outcomes' = [outcomes EXCEPT ![s] = Append(@, [ok |-> FALSE, val |-> e])]
    /\ pc' = [pc EXCEPT ![s] = "L103"]
    /\ UNCHANGED <<environ, configured, ended, widget, chat, chatInputShown,
                   submitted, seeds>>

\* Lines 82-85, 93-98: generate_content or response.text raises e.
GenerateContentRaises(s, e) ==
    /\ pc[s] = "L82"
    /\ errors' = [errors EXCEPT ![s] = Append(@, error_message(e))]
    /\ session_state' = [session_state EXCEPT ![s].messages =
           AppendFallback(@, error_message(e))]
    /\ outcomes' = [outcomes EXCEPT ![s] = Append(@, [ok |-> FALSE, val |-> e])]
    /\ pc' = [pc EXCEPT ![s] = "L103"]
    /\ UNCHANGED <<environ, configured, ended, widget, chat, chatInputShown,
                   requests, submitted, seeds>>

\* Lines 103-111: the sidebar; the script reaches its end.
Sidebar(s) ==
    /\ pc[s] = "L103"
    /\ pc' = [pc EXCEPT ![s] = "idle"]
    /\ ended' = [ended EXCEPT ![s] = "complete"]
    /\ UNCHANGED <<environ, configured, widget, session_state, chat,
                   chatInputShown, errors, requests, submitted, outcomes, seeds>>

Next ==
    \E s \in Sessions :
        \/ \E v \in {NoneVal} \cup {Str(p) : p \in Prompts} : StartRun(s, v)
        \/ CheckKey(s)
        \/ InitMessages(s)
        \/ RenderHistory(s)
        \/ ChatInput(s)
        \/ \E T \in Replies : GenerateContentReturns(s, T)
        \/ \E e \in Failures : GenerateContentRaises(s, e)
        \/ Sidebar(s)

Spec == Init /\ [][Next]_vars

\* ------------------------------------------------------------------ claims
IsPrefix(a, b) == Len(a) <= Len(b) /\ SubSeq(b, 1, Len(a)) = a
UserTurns(m) == {k \in DOMAIN m : m[k].role = "user"}
\* The i-th submitted message of s has been handled with a failure.
Failed(s, i) == i \in DOMAIN outcomes[s] /\ ~outcomes[s][i].ok

\* C1: once the N-th submitted message of a session has been processed
\* (the run is not waiting at generate_content), the transcript holds
\* exactly 1 + 2*N turns, whatever mix of replies and failures occurred;
\* while the N-th call is pending it holds 2*N.
C1_LengthIsOnePlusTwoN ==
    \A s \in Sessions :
        hasMessages(s) =>
            Len(messages(s)) =
                IF pc[s] = "L82" THEN 2 * Len(submitted[s])
                ELSE 1 + 2 * Len(submitted[s])

C1_Witness ==
    \E s \in Sessions :
        /\ pc[s] = "idle"
        /\ Len(submitted[s]) = MaxMsgs
        /\ \E i, j \in DOMAIN outcomes[s] : outcomes[s][i].ok /\ Failed(s, j)
        /\ Len(messages(s)) = 1 + 2 * MaxMsgs

\* C2: when the collaborator returned text T for the i-th message, the turn
\* appended for it (right after its user turn) is an assistant turn whose
\* content is T.
C2_ReplyStoredExactly ==
    \A s \in Sessions : \A i \in DOMAIN outcomes[s] :
        outcomes[s][i].ok =>
            /\ 2 * i + 1 <= Len(messages(s))
            /\ messages(s)[2 * i + 1] = Turn("assistant", outcomes[s][i].val)

C2_Witness ==
    \E s \in Sessions :
        /\ pc[s] = "L103"
        /\ messages(s) = <<Turn("assistant", GREETING), Turn("user", "Hello"),
                           Turn("assistant", "Hi there")>>
        /\ outcomes[s] = <<[ok |-> TRUE, val |-> "Hi there"]>>

\* C3: when the collaborator failed for the i-th message, the turn appended
\* for it is the assistant turn with the fixed fallback text; the failure
\* detail is given to st.error in that run, and no turn of any transcript is
\* the detail (the exception's text or the error message built from it).
C3_FallbackNotDetail ==
    \A s \in Sessions :
        /\ \A i \in DOMAIN outcomes[s] :
              Failed(s, i) =>
                  /\ 2 * i + 1 <= Len(messages(s))
                  /\ messages(s)[2 * i + 1] = Turn("assistant", FALLBACK)
                  /\ \A t \in Sessions : \A k \in DOMAIN messages(t) :
                        messages(t)[k].content \notin
                            {outcomes[s][i].val,
                             "An error occurred while fetching a response: "
                                 \o outcomes[s][i].val}
        /\ (pc[s] = "L103" /\ ~widget[s].isNone /\ outcomes[s] # <<>>) =>
              errors[s] =
                  IF Last(outcomes[s]).ok THEN <<>>
                  ELSE <<"An error occurred while fetching a response: "
                            \o Last(outcomes[s]).val>>

C3_Witness ==
    \E s \in Sessions :
        /\ pc[s] = "L103"
        /\ Failed(s, Len(outcomes[s]))
        /\ errors[s] # <<>>
        /\ messages(s) = <<Turn("assistant", GREETING), Turn("user", "Hello"),
                           Turn("assistant", FALLBACK)>>

\* C4: every step leaves the previous transcript a prefix of the new one,
\* and the user turn of the i-th submitted message is the turn at position
\* 2i-1 counted from 0 (index 2i counted from 1) and carries its text.
C4_AppendOnlyInOrder ==
    /\ [][\A s \in Sessions : IsPrefix(messages(s), messages(s)')]_vars
    /\ [](\A s \in Sessions : \A i \in DOMAIN submitted[s] :
              /\ 2 * i <= Len(messages(s))
              /\ messages(s)[2 * i] = Turn("user", submitted[s][i]))

C4_Witness ==
    \E s \in Sessions :
        /\ submitted[s] = <<"How do I center a div?", "Hello">>
        /\ Len(messages(s)) = 5
        /\ messages(s)[2].content = "How do I center a div?"
        /\ messages(s)[4].content = "Hello"

\* C5: the transcript is created only by the first run of a session, as the
\* single greeting turn; afterwards it is never created again, never emptied
\* and never shortened, and its first turn is the greeting.
C5_SeededOnce ==
    /\ [](\A s \in Sessions :
              IF hasMessages(s)
              THEN /\ seeds[s] = 1
                   /\ messages(s) # <<>>
                   /\ messages(s)[1] = Turn("assistant", GREETING)
              ELSE seeds[s] = 0 /\ messages(s) = <<>>)
    /\ [][\A s \in Sessions :
              /\ (~hasMessages(s) /\ hasMessages(s)') =>
                    /\ ended[s] = "none"
                    /\ messages(s)' = <<Turn("assistant", GREETING)>>
              /\ hasMessages(s) =>
                    /\ hasMessages(s)'
                    /\ Len(messages(s)') >= Len(messages(s))]_vars

C5_Witness ==
    \E s \in Sessions :
        /\ pc[s] = "L58"
        /\ ended[s] = "complete"
        /\ seeds[s] = 1
        /\ Len(messages(s)) = 3

\* C6: while GEMINI_API_KEY is unset or empty, no session ever has a
\* transcript, a drawn turn, a chat_input, a submitted message, a configured
\* client or a collaborator call; every run ends at st.stop having given the
\* configuration error to st.error, the first one and every later one.
C6_NoKeyHalts ==
    (environ.isNone \/ environ.val = "") =>
        /\ configured = NoneVal
        /\ \A s \in Sessions :
              /\ ~hasMessages(s) /\ messages(s) = <<>>
              /\ chat[s] = <<>>
              /\ ~chatInputShown[s]
              /\ submitted[s] = <<>> /\ requests[s] = <<>> /\ outcomes[s] = <<>>
              /\ widget[s] = NoneVal
              /\ pc[s] \in {"idle", "L15"}
              /\ ended[s] \in {"none", "stop"}
              /\ (pc[s] = "idle" /\ ended[s] = "stop") =>
                    errors[s] = <<CONFIG_ERROR>>
              /\ (pc[s] = "idle" /\ ended[s] = "none") => errors[s] = <<>>

C6_Witness ==
    /\ environ = Str("")
    /\ \E s \in Sessions : pc[s] = "L15" /\ ended[s] = "stop"
    /\ \E s \in Sessions : pc[s] = "idle" /\ errors[s] = <<CONFIG_ERROR>>

\* C7: after a message whose call failed, the run reaches the end of the
\* script with the chat_input drawn, and the next submitted message gets its
\* user turn, its own collaborator request, and the reply or the fallback
\* according to its own call's outcome.
C7_UsableAfterFailure ==
    \A s \in Sessions : \A i \in DOMAIN outcomes[s] :
        Failed(s, i) =>
            /\ pc[s] = "idle" => (ended[s] = "complete" /\ chatInputShown[s])
            /\ i + 1 \in DOMAIN submitted[s] =>
                  /\ messages(s)[2 * i + 2] = Turn("user", submitted[s][i + 1])
                  /\ Len(requests[s]) >= i + 1
                  /\ i + 1 \in DOMAIN outcomes[s] =>
                        messages(s)[2 * i + 3] =
                            Turn("assistant",
                                 IF outcomes[s][i + 1].ok
                                 THEN outcomes[s][i + 1].val ELSE FALLBACK)

C7_Witness ==
    \E s \in Sessions :
        /\ pc[s] = "idle"
        /\ Len(outcomes[s]) = 2
        /\ Failed(s, 1)
        /\ outcomes[s][2].ok
        /\ Last(messages(s)).content = "Hi there"

\* C8: in every state the collaborator has been called once per user turn
\* of the transcript, each call has at most one outcome and is not repeated
\* after a failure, and a call is only ever made by the chat_input statement
\* of a run in which a message was submitted.
C8_OneCallPerMessage ==
    /\ [](\A s \in Sessions :
              /\ Len(requests[s]) = Cardinality(UserTurns(messages(s)))
              /\ Len(requests[s]) = Len(submitted[s])
              /\ Len(outcomes[s]) =
                    IF pc[s] = "L82" THEN Len(requests[s]) - 1
                    ELSE Len(requests[s]))
    /\ [][\A s \in Sessions :
              requests'[s] # requests[s] =>
                  /\ pc[s] = "L66"
                  /\ ~widget[s].isNone
                  /\ Len(requests'[s]) = Len(requests[s]) + 1]_vars

C8_Witness ==
    \E s \in Sessions :
        /\ pc[s] = "L103"
        /\ widget[s] = NoneVal
        /\ Len(requests[s]) = 2
        /\ Failed(s, 1)

\* C9: every request is AGENT_INSTRUCTIONS, the exchange labels and the text
\* just submitted, so two requests for the same text are equal whatever the
\* sessions they come from and whatever those sessions' earlier messages,
\* replies and failures were.
C9_RequestFromPromptOnly ==
    \A s, t \in Sessions :
        \A i \in DOMAIN requests[s] : \A j \in DOMAIN requests[t] :
            /\ i \in DOMAIN submitted[s]
            /\ requests[s][i] =
                  AGENT_INSTRUCTIONS \o "\n\nUser: " \o submitted[s][i]
                      \o "\nFrontend Master:"
            /\ submitted[s][i] = submitted[t][j] =>
                  requests[s][i] = requests[t][j]

C9_Witness ==
    \E s, t \in Sessions :
        /\ s # t
        /\ pc[s] = "L82" /\ pc[t] = "L82"
        /\ Len(requests[s]) = 1 /\ Len(requests[t]) = 2
        /\ submitted[s][1] = submitted[t][2]
        /\ submitted[t][1] # submitted[t][2]
        /\ Failed(t, 1)

\* C10: the step that ends a collaborator call appends exactly one turn, the
\* reply or the fallback; and whenever the history loop has drawn the
\* transcript, what it drew ends with an assistant turn and has an assistant
\* turn right after every user turn.
WellPaired(m) ==
    /\ m # <<>>
    /\ Last(m).role = "assistant"
    /\ \A k \in UserTurns(m) : k < Len(m) /\ m[k + 1].role = "assistant"

C10_TwoOutcomesNoPending ==
    /\ [](\A s \in Sessions :
              /\ pc[s] \in {"L66", "L82", "L103"} =>
                    (WellPaired(chat[s]) /\ IsPrefix(chat[s], messages(s)))
              /\ (hasMessages(s) /\ pc[s] # "L82") => WellPaired(messages(s)))
    /\ [][\A s \in Sessions :
              (pc[s] = "L82" /\ pc'[s] # "L82") =>
                  /\ Len(outcomes'[s]) = Len(outcomes[s]) + 1
                  /\ messages(s)' =
                        Append(messages(s),
                               Turn("assistant",
                                    IF Last(outcomes'[s]).ok
                                    THEN Last(outcomes'[s]).val
                                    ELSE FALLBACK))]_vars

C10_Witness ==
    \E s \in Sessions :
        /\ pc[s] = "L66"
        /\ Len(chat[s]) = 5
        /\ Failed(s, 1)
        /\ outcomes[s][2].ok

====
